---- MODULE Spec2Model ----
(***************************************************************************)
(* Model of ros/src/waypoint_updater/waypoint_updater.py: the              *)
(* WaypointUpdater node.  The main thread runs run(); rospy delivers       *)
(* /current_pose, /base_waypoints and /traffic_waypoint on subscriber      *)
(* threads, so pose_cb, waypoints_cb and traffic_cb interleave with the    *)
(* planning tick between any two accesses of an attribute of self.         *)
(*                                                                         *)
(* Speeds are fixed-point numbers in units of 1/4, so that                 *)
(* max_deceleration = 0.75 and the threshold 1 are exact.  Reference paths *)
(* are chosen with integral segment lengths, so math.sqrt is exact.        *)
(***************************************************************************)
EXTENDS Integers, Sequences, FiniteSets, TLC

VARIABLES
    waypoints_base,    \* self.waypoints_base: the Lane message, gen = 0 is None
    waypoints_2d,      \* self.waypoints_2d: list of [x, y], gen = 0 is None
    waypoints_tree,    \* self.waypoints_tree: KDTree over its data, gen = 0 is None
    pose,              \* self.pose: PoseStamped, seq = 0 is None
    stopline_wp_idx,   \* self.stopline_wp_idx
    cb_pc,             \* position of the /base_waypoints subscriber thread
    cb_msg,            \* the message waypoints_cb is handling
    pc,                \* position of the main thread inside run()
    call,              \* which call of get_closest_waypoint_idx is active
    gc,                \* frame of get_closest_waypoint_idx
    run_idx,           \* closest_waypoint_idx of run(), with the pose it came from
    gl,                \* frame of generate_lane / decelerate_waypoints
    last_tick,         \* outcome of the last completed loop iteration of run()
    error              \* the exception that ended run(), if any

vars == <<waypoints_base, waypoints_2d, waypoints_tree, pose, stopline_wp_idx,
          cb_pc, cb_msg, pc, call, gc, run_idx, gl,
          last_tick, error>>

(***************************************************************************)
(* Bounds of the model.                                                    *)
(***************************************************************************)
MaxLaneMsgs == 2
MaxPoseMsgs == 2
lookahead_waypoints == 6

(***************************************************************************)
(* Program constants.                                                      *)
(***************************************************************************)
\* max_deceleration = 0.75 as a fraction; speeds are counted in units of 1/den
max_deceleration == [num |-> 3, den |-> 4]
NoStopline == -1
NoseOffset == 3

(***************************************************************************)
(* Inputs.  A path is the content of a /base_waypoints message: positions  *)
(* <<x, y, z>> and target speeds (twist.twist.linear.x, in quarters)  .      *)
(***************************************************************************)
PathB == [pts |-> << <<0,0,0>>, <<2,0,0>>, <<4,0,0>>, <<6,0,0>>, <<8,0,0>>, <<10,0,0>> >>,
          vel |-> <<4, 8, 8, 8, 8, 8>>]
PathC == [pts |-> << <<0,0,0>>, <<0,3,4>> >>,
          vel |-> <<8, 8>>]
PathSet == {PathB, PathC}
PoseSet == { <<-1,0>>, <<1,0>>, <<9,4>> }
StopSet == {-1, 5, 9}

(***************************************************************************)
(* Python list semantics.                                                  *)
(***************************************************************************)
Min(a, b) == IF a < b THEN a ELSE b
Max(a, b) == IF a > b THEN a ELSE b

\* s[k] is defined for -len(s) <= k < len(s); anything else is an IndexError
PyInRange(s, k) == k >= -Len(s) /\ k < Len(s)
PyGet(s, k) == IF k >= 0 THEN s[k + 1] ELSE s[Len(s) + k + 1]
\* s[a:b] for a, b >= 0: both ends are clipped to len(s), never wrapped
PySlice(s, a, b) == SubSeq(s, Min(a, Len(s)) + 1, Min(b, Len(s)))

(***************************************************************************)
(* Messages and the objects built from them.  A reference Waypoint object  *)
(* is identified by obj = <<delivery, position in the list>>; a Waypoint() *)
(* allocated by the node has delivery 0.  Deliveries of /base_waypoints    *)
(* are numbered 1, 2, ... (gen), and poses carry their header.seq.         *)
(***************************************************************************)
MkLane(g, p) ==
    [gen |-> g,
     waypoints |-> [k \in 1..Len(p.pts) |->
                       [obj |-> <<g, k>>, pos |-> p.pts[k], v |-> p.vel[k]]]]
NoLane == [gen |-> 0, waypoints |-> <<>>]
No2d   == [gen |-> 0, pts |-> <<>>]
NoTree == [gen |-> 0, data |-> <<>>]
NoPose == [seq |-> 0, x |-> 0, y |-> 0]


\* the list comprehension of waypoints_cb
Coords2d(lane) ==
    [k \in 1..Len(lane.waypoints) |->
        <<lane.waypoints[k].pos[1], lane.waypoints[k].pos[2]>>]

(***************************************************************************)
(* KDTree.query([x, y], 1)[1]: the index of a stored point at minimal      *)
(* distance.  Which of several equidistant points is returned is left to   *)
(* the library, so every one of them is a possible answer.                 *)
(***************************************************************************)
SqDist2(a, x, y) == (a[1] - x) * (a[1] - x) + (a[2] - y) * (a[2] - y)
KDQuery(data, x, y) ==
    {c \in 0..(Len(data) - 1) :
        \A d \in 0..(Len(data) - 1) :
            SqDist2(data[c + 1], x, y) <= SqDist2(data[d + 1], x, y)}

Dot(a, b) == a[1] * b[1] + a[2] * b[2]
Sub(a, b) == <<a[1] - b[1], a[2] - b[2]>>

(***************************************************************************)
(* WaypointUpdater.distance                                                *)
(***************************************************************************)
Sqrt(n) == CHOOSE r \in 0..n : r * r = n
Dl(a, b) == Sqrt((a[1] - b[1]) * (a[1] - b[1]) + (a[2] - b[2]) * (a[2] - b[2])
                 + (a[3] - b[3]) * (a[3] - b[3]))

RECURSIVE DistanceLoop(_, _, _, _, _)
DistanceLoop(waypoints, wp1, i, wp2, dist) ==
    IF i > wp2 THEN dist
    ELSE DistanceLoop(waypoints, i, i + 1, wp2,
                      dist + Dl(PyGet(waypoints, wp1).pos, PyGet(waypoints, i).pos))

distance(waypoints, wp1, wp2) == DistanceLoop(waypoints, wp1, wp1, wp2, 0)

\* distance raises IndexError when range(wp1, wp2 + 1) leaves the list
DistanceRaises(waypoints, wp1, wp2) ==
    \E i \in wp1..wp2 : ~PyInRange(waypoints, i)

(***************************************************************************)
(* Initial state: WaypointUpdater.__init__                                 *)
(***************************************************************************)
\* besides the locals of get_closest_waypoint_idx, its frame records where each
\* value came from: the pose behind x and y, the points of the tree that was
\* queried (data), and the delivery and the list behind each read of
\* self.waypoints_2d (line 77: cur, line 78: prev, line 87: len)
GcInit == [x |-> 0, y |-> 0, xseq |-> 0, yseq |-> 0, closest_idx |-> 0,
           data |-> <<>>, tree_gen |-> 0, cur_gen |-> 0, prev_gen |-> 0, len_gen |-> 0,
           same_list |-> TRUE,
           closest_coord |-> <<0, 0>>, prev_coord |-> <<0, 0>>,
           ret |-> 0, done |-> FALSE]
RunInit == [closest_waypoint_idx |-> 0, xseq |-> 0, yseq |-> 0]
\* besides the locals of generate_lane and decelerate_waypoints, their frame
\* records the list that was sliced (base), its delivery, the first value of
\* self.stopline_wp_idx the tick read (stop_read) and whether every later read
\* returned the same value (stop_same)
GlInit == [closest_idx |-> 0, farthest_idx |-> 0, base_gen |-> 0, base |-> <<>>,
           base_waypoints |-> <<>>, stop_read |-> 0, stop_same |-> TRUE,
           branch |-> "none", i |-> 0, temp |-> <<>>, lane |-> <<>>]

Init ==
    /\ waypoints_base = NoLane
    /\ waypoints_2d = No2d
    /\ waypoints_tree = NoTree
    /\ pose = NoPose
    /\ stopline_wp_idx = NoStopline
    /\ cb_pc = "idle"
    /\ cb_msg = NoLane
    /\ pc = "idle"
    /\ call = 0
    /\ gc = GcInit
    /\ run_idx = RunInit
    /\ gl = GlInit
    /\ last_tick = "none"
    /\ error = "none"

Running == pc # "crashed"

mainVars == <<pc, call, gc, run_idx, gl, last_tick, error>>
laneVars == <<waypoints_base, waypoints_2d, waypoints_tree, cb_pc, cb_msg>>

(***************************************************************************)
(* Subscriber callbacks.                                                   *)
(***************************************************************************)
pose_cb ==
    /\ Running
    /\ pose.seq < MaxPoseMsgs
    /\ \E p \in PoseSet :
          pose' = [seq |-> pose.seq + 1, x |-> p[1], y |-> p[2]]
    /\ UNCHANGED <<stopline_wp_idx>>
    /\ UNCHANGED laneVars
    /\ UNCHANGED mainVars

traffic_cb ==
    /\ Running
    /\ \E data \in StopSet :
          /\ data # stopline_wp_idx
          /\ stopline_wp_idx' = data
    /\ UNCHANGED <<pose>>
    /\ UNCHANGED laneVars
    /\ UNCHANGED mainVars

\* line 149: self.waypoints_base = waypoints
waypoints_cb_base ==
    /\ Running
    /\ cb_pc = "idle"
    /\ waypoints_base.gen < MaxLaneMsgs
    /\ \E p \in PathSet :
          LET msg == MkLane(waypoints_base.gen + 1, p) IN
          /\ cb_msg' = msg
          /\ waypoints_base' = msg
    /\ cb_pc' = "w2d"
    /\ UNCHANGED <<waypoints_2d, waypoints_tree, pose, stopline_wp_idx>>
    /\ UNCHANGED mainVars

\* lines 150-151: self.waypoints_2d = [[x, y] for waypoint in waypoints.waypoints]
waypoints_cb_2d ==
    /\ Running
    /\ cb_pc = "w2d"
    /\ waypoints_2d' = [gen |-> cb_msg.gen, pts |-> Coords2d(cb_msg)]
    /\ cb_pc' = "wtree"
    /\ UNCHANGED <<waypoints_base, waypoints_tree, cb_msg, pose, stopline_wp_idx>>
    /\ UNCHANGED mainVars

\* line 152: self.waypoints_tree = KDTree(self.waypoints_2d)
waypoints_cb_tree ==
    /\ Running
    /\ cb_pc = "wtree"
    /\ waypoints_tree' = [gen |-> waypoints_2d.gen, data |-> waypoints_2d.pts]
    /\ cb_pc' = "idle"
    /\ cb_msg' = NoLane
    /\ UNCHANGED <<waypoints_base, waypoints_2d, pose, stopline_wp_idx>>
    /\ UNCHANGED mainVars

(***************************************************************************)
(* The main thread: run().  Each action is the code between two reads of   *)
(* an attribute that a callback may replace.                               *)
(***************************************************************************)
sharedVars == <<waypoints_base, waypoints_2d, waypoints_tree, pose, stopline_wp_idx,
                cb_pc, cb_msg>>

\* the guard without the test of self.waypoints_tree
Ready_NoTree == pose.seq # 0 /\ waypoints_base.gen # 0

\* line 62: self.pose and self.waypoints_base and self.waypoints_tree.  None of
\* the three ever goes back to None, so the three reads act as one.
Ready == pose.seq # 0 /\ waypoints_base.gen # 0 /\ waypoints_tree.gen # 0

\* an uncaught exception leaves run(); __main__ only catches ROSInterruptException
Raise(site) ==
    /\ pc' = "crashed"
    /\ error' = site
    /\ last_tick' = "crashed"
    /\ UNCHANGED <<call, gc, run_idx, gl>>

\* lines 61-62 and 66: the loop test, and rate.sleep() when something is missing
run_guard ==
    /\ pc = "idle"
    /\ IF Ready
       THEN /\ pc' = "gc_x"
            /\ call' = 1
            /\ UNCHANGED <<gc, run_idx, gl, last_tick, error>>
       ELSE /\ last_tick' = "skipped"
            /\ UNCHANGED <<pc, call, gc, run_idx, gl, error>>
    /\ UNCHANGED sharedVars

\* line 70: x = self.pose.pose.position.x
gc_read_x ==
    /\ pc = "gc_x"
    /\ gc' = [GcInit EXCEPT !.x = pose.x, !.xseq = pose.seq]
    /\ pc' = "gc_y"
    /\ UNCHANGED <<call, run_idx, gl, last_tick, error>>
    /\ UNCHANGED sharedVars

\* line 71: y = self.pose.pose.position.y
gc_read_y ==
    /\ pc = "gc_y"
    /\ gc' = [gc EXCEPT !.y = pose.y, !.yseq = pose.seq]
    /\ pc' = "gc_query"
    /\ UNCHANGED <<call, run_idx, gl, last_tick, error>>
    /\ UNCHANGED sharedVars

\* line 74: closest_idx = self.waypoints_tree.query([x, y], 1)[1]
gc_query ==
    /\ pc = "gc_query"
    /\ \E c \in KDQuery(waypoints_tree.data, gc.x, gc.y) :
          gc' = [gc EXCEPT !.closest_idx = c, !.data = waypoints_tree.data,
                           !.tree_gen = waypoints_tree.gen]
    /\ pc' = "gc_cur"
    /\ UNCHANGED <<call, run_idx, gl, last_tick, error>>
    /\ UNCHANGED sharedVars

\* line 77: closest_coord = self.waypoints_2d[closest_idx]
gc_closest_coord ==
    /\ pc = "gc_cur"
    /\ IF PyInRange(waypoints_2d.pts, gc.closest_idx)
       THEN /\ gc' = [gc EXCEPT !.closest_coord = PyGet(waypoints_2d.pts, gc.closest_idx),
                                !.cur_gen = waypoints_2d.gen,
                                !.same_list = (@ /\ waypoints_2d.pts = gc.data)]
            /\ pc' = "gc_prev"
            /\ UNCHANGED <<call, run_idx, gl, last_tick, error>>
       ELSE Raise("waypoints_2d")
    /\ UNCHANGED sharedVars

\* line 78: prev_coord = self.waypoints_2d[closest_idx-1]
gc_prev_coord ==
    /\ pc = "gc_prev"
    /\ IF PyInRange(waypoints_2d.pts, gc.closest_idx - 1)
       THEN /\ gc' = [gc EXCEPT !.prev_coord = PyGet(waypoints_2d.pts, gc.closest_idx - 1),
                                !.prev_gen = waypoints_2d.gen,
                                !.same_list = (@ /\ waypoints_2d.pts = gc.data)]
            /\ pc' = "gc_ret"
            /\ UNCHANGED <<call, run_idx, gl, last_tick, error>>
       ELSE Raise("waypoints_2d")
    /\ UNCHANGED sharedVars

\* lines 81-85: the sign test
SignVal(closest_coord, prev_coord, x, y) ==
    Dot(Sub(closest_coord, prev_coord), Sub(<<x, y>>, closest_coord))

\* the advance without the wrap at the end of the list
AheadIdx_NoWrap(closest_idx, val, n) ==
    IF val > 0 THEN closest_idx + 1 ELSE closest_idx

\* lines 86-88: the index get_closest_waypoint_idx returns, n = len(self.waypoints_2d)
AheadIdx(closest_idx, val, n) ==
    IF val > 0 THEN (closest_idx + 1) % n ELSE closest_idx

\* lines 81-88, and the return into run() (line 64, then 65, 98 and 105) or
\* into generate_lane (line 105)
gc_return ==
    /\ pc = "gc_ret"
    /\ LET val == SignVal(gc.closest_coord, gc.prev_coord, gc.x, gc.y)
           ret == AheadIdx(gc.closest_idx, val, Len(waypoints_2d.pts))
       IN /\ gc' = [gc EXCEPT !.ret = ret, !.done = TRUE,
                              !.len_gen = IF val > 0 THEN waypoints_2d.gen ELSE 0,
                              !.same_list = (@ /\ (val > 0 => waypoints_2d.pts = gc.data))]
          /\ IF call = 1
             THEN /\ run_idx' = [closest_waypoint_idx |-> ret,
                                 xseq |-> gc.xseq, yseq |-> gc.yseq]
                  /\ call' = 2
                  /\ pc' = "gc_x"
                  /\ gl' = gl
             ELSE /\ gl' = [gl EXCEPT !.closest_idx = ret]
                  /\ pc' = "gl_slice"
                  /\ UNCHANGED <<run_idx, call>>
    /\ UNCHANGED <<last_tick, error>>
    /\ UNCHANGED sharedVars

\* lines 106-107: farthest_idx, and the slice of self.waypoints_base.waypoints
gl_slice ==
    /\ pc = "gl_slice"
    /\ LET farthest_idx == gl.closest_idx + lookahead_waypoints
       IN gl' = [gl EXCEPT !.farthest_idx = farthest_idx,
                           !.base_gen = waypoints_base.gen,
                           !.base = waypoints_base.waypoints,
                           !.base_waypoints =
                               PySlice(waypoints_base.waypoints, gl.closest_idx, farthest_idx)]
    /\ pc' = "gl_check1"
    /\ UNCHANGED <<call, gc, run_idx, last_tick, error>>
    /\ UNCHANGED sharedVars

\* the sentinel test against 0 instead of -1
NoLight_Zero(stopline) == stopline = 0

\* line 110, left operand: self.stopline_wp_idx == -1
NoLight(stopline) == stopline = NoStopline

\* line 110, right operand: self.stopline_wp_idx >= farthest_idx
LightBeyond(stopline, farthest_idx) == stopline >= farthest_idx

\* line 110, left operand, and line 111 when it holds.  The frames of run() and
\* get_closest_waypoint_idx are dead from here on.
gl_check_none ==
    /\ pc = "gl_check1"
    /\ IF NoLight(stopline_wp_idx)
       THEN /\ gl' = [gl EXCEPT !.stop_read = stopline_wp_idx,
                                !.branch = "cruise",
                                !.lane = gl.base_waypoints]
            /\ pc' = "publish"
       ELSE /\ gl' = [gl EXCEPT !.stop_read = stopline_wp_idx]
            /\ pc' = "gl_check2"
    /\ gc' = GcInit
    /\ run_idx' = RunInit
    /\ UNCHANGED <<call, last_tick, error>>
    /\ UNCHANGED sharedVars

\* line 110, right operand, and line 111 or the call of line 113
gl_check_far ==
    /\ pc = "gl_check2"
    /\ IF LightBeyond(stopline_wp_idx, gl.farthest_idx)
       THEN /\ gl' = [gl EXCEPT !.stop_same = (@ /\ stopline_wp_idx = gl.stop_read),
                                !.branch = "cruise",
                                !.lane = gl.base_waypoints]
            /\ pc' = "publish"
       ELSE /\ gl' = [gl EXCEPT !.stop_same = (@ /\ stopline_wp_idx = gl.stop_read),
                                !.branch = "decel",
                                !.i = 0,
                                !.temp = <<>>]
            /\ pc' = "dw_loop"
    /\ UNCHANGED <<call, gc, run_idx, last_tick, error>>
    /\ UNCHANGED sharedVars

\* the stop offset without the distance from the vehicle's centre to its nose
StopLocal_NoNose(stopline, closest_idx) == Max(stopline - closest_idx, 0)

\* line 124: stop_idx = max(self.stopline_wp_idx - closest_idx - 3, 0)
StopLocal(stopline, closest_idx) == Max(stopline - closest_idx - NoseOffset, 0)

\* lines 127-129: vel = max_deceleration * dist, and 0 below 1
RampVel(dist) ==
    LET vel == max_deceleration.num * dist
    IN IF vel < max_deceleration.den THEN 0 ELSE vel

\* the ramp speed without the cap at the waypoint's own speed
DecelVel_NoCap(vel, wp) == vel

\* line 132: p.twist.twist.linear.x = min(vel, wp.twist.twist.linear.x)
DecelVel(vel, wp) == Min(vel, wp.v)

\* lines 119-133: one iteration of the loop of decelerate_waypoints; p is a new
\* Waypoint whose pose is the pose object of wp
dw_iter ==
    /\ pc = "dw_loop"
    /\ gl.i < Len(gl.base_waypoints)
    /\ LET wp == PyGet(gl.base_waypoints, gl.i)
           stop_idx == StopLocal(stopline_wp_idx, gl.closest_idx)
       IN IF DistanceRaises(gl.base_waypoints, gl.i, stop_idx)
          THEN Raise("distance")
          ELSE LET dist == distance(gl.base_waypoints, gl.i, stop_idx)
                   p == [obj |-> <<0, gl.i + 1>>, pos |-> wp.pos,
                         v |-> DecelVel(RampVel(dist), wp)]
               IN /\ gl' = [gl EXCEPT !.stop_same = (@ /\ stopline_wp_idx = gl.stop_read),
                                      !.temp = Append(@, p),
                                      !.i = @ + 1]
                  /\ pc' = "dw_loop"
                  /\ UNCHANGED <<call, gc, run_idx, last_tick, error>>
    /\ UNCHANGED sharedVars

\* lines 135 and 113: the loop is over, lane.waypoints = temp
dw_return ==
    /\ pc = "dw_loop"
    /\ gl.i >= Len(gl.base_waypoints)
    /\ gl' = [gl EXCEPT !.lane = gl.temp]
    /\ pc' = "publish"
    /\ UNCHANGED <<call, gc, run_idx, last_tick, error>>
    /\ UNCHANGED sharedVars

\* lines 115, 99 and 66: final_waypoints_pub.publish(final_lane), with
\* final_lane.waypoints = gl.lane, then rate.sleep() until the next tick
publish_waypoints ==
    /\ pc = "publish"
    /\ last_tick' = "published"
    /\ pc' = "idle"
    /\ call' = 0
    /\ gl' = GlInit
    /\ UNCHANGED <<gc, run_idx, error>>
    /\ UNCHANGED sharedVars

Next ==
    \/ pose_cb
    \/ traffic_cb
    \/ waypoints_cb_base
    \/ waypoints_cb_2d
    \/ waypoints_cb_tree
    \/ run_guard
    \/ gc_read_x
    \/ gc_read_y
    \/ gc_query
    \/ gc_closest_coord
    \/ gc_prev_coord
    \/ gc_return
    \/ gl_slice
    \/ gl_check_none
    \/ gl_check_far
    \/ dw_iter
    \/ dw_return
    \/ publish_waypoints

Spec == Init /\ [][Next]_vars

(***************************************************************************)
(* Properties.  A window is emitted by the step publish_waypoints; in the  *)
(* state before it, gl.lane is final_lane.waypoints, gl.closest_idx the    *)
(* ahead index and gl.base the reference path that was sliced.             *)
(***************************************************************************)
Emitting == pc = "publish"

\* offsets of the emitted window, and the speed of the reference waypoint at a
\* path index
Offsets == 0..(Len(gl.lane) - 1)
EmittedVel(i) == gl.lane[i + 1].v
ReferenceVel(k) == gl.base[k + 1].v

\* C1: speed ceiling.  In every emitted window, the speed at each local offset
\* i is at most the original target speed of the reference waypoint at path
\* index ahead_idx + i.
SpeedCeiling ==
    Emitting =>
        \A i \in Offsets :
            /\ gl.closest_idx + i < Len(gl.base)
            /\ EmittedVel(i) <= ReferenceVel(gl.closest_idx + i)

\* a deceleration window with one speed capped by the reference speed and one
\* taken from the ramp below the reference speed
SpeedCeilingWitness ==
    /\ Emitting
    /\ gl.branch = "decel"
    /\ \E i \in Offsets :
          EmittedVel(i) > 0 /\ EmittedVel(i) = ReferenceVel(gl.closest_idx + i)
    /\ \E j \in Offsets :
          EmittedVel(j) > 0 /\ EmittedVel(j) < ReferenceVel(gl.closest_idx + j)

\* the stop offset as the claims define it
ClaimStopLocal == IF gl.stop_read - gl.closest_idx - 3 > 0
                  THEN gl.stop_read - gl.closest_idx - 3 ELSE 0

\* a tick that took the deceleration branch and read one and the same
\* stop-line index throughout
SteadyDecel == Emitting /\ gl.branch = "decel" /\ gl.stop_same

\* C2 as stated: with an active stop line below ahead_idx + horizon, emitted
\* speeds are non-increasing from offset 0 up to stop_local and exactly 0 at
\* every offset from stop_local on, for all reference speed assignments.
DecelMonotoneAnySpeeds ==
    SteadyDecel =>
        /\ \A i, j \in Offsets :
              (i <= j /\ j <= ClaimStopLocal) => EmittedVel(j) <= EmittedVel(i)
        /\ \A i \in Offsets : i >= ClaimStopLocal => EmittedVel(i) = 0

\* the reference speeds of the window do not increase up to stop_local
ReferenceNonIncreasing ==
    \A i, j \in Offsets :
        (i <= j /\ j <= ClaimStopLocal) =>
            ReferenceVel(gl.closest_idx + j) <= ReferenceVel(gl.closest_idx + i)

\* C2 amended: the same, for windows whose reference speeds are themselves
\* non-increasing from offset 0 up to stop_local (and never negative); the zero
\* part holds for every window.
DecelMonotone ==
    SteadyDecel =>
        /\ (ReferenceNonIncreasing =>
              \A i, j \in Offsets :
                  (i <= j /\ j <= ClaimStopLocal) => EmittedVel(j) <= EmittedVel(i))
        /\ \A i \in Offsets : i >= ClaimStopLocal => EmittedVel(i) = 0

\* a ramp that starts above zero and reaches zero at a stop offset inside the
\* window, past offset 0
DecelMonotoneWitness ==
    /\ SteadyDecel
    /\ ReferenceNonIncreasing
    /\ ClaimStopLocal >= 1
    /\ ClaimStopLocal < Len(gl.lane)
    /\ EmittedVel(0) > 0
    /\ EmittedVel(ClaimStopLocal) = 0

\* C3: cruise pass-through.  A tick that reads the sentinel -1 emits the slice
\* of the reference path from ahead_idx on, every speed as it was received.
CruisePassThrough ==
    (Emitting /\ gl.stop_read = -1) =>
        /\ Len(gl.lane) = Min(lookahead_waypoints, Max(Len(gl.base) - gl.closest_idx, 0))
        /\ \A i \in Offsets :
              /\ EmittedVel(i) = ReferenceVel(gl.closest_idx + i)
              /\ gl.lane[i + 1].pos = gl.base[gl.closest_idx + i + 1].pos

\* a cruise window of several waypoints that does not start at the head of
\* the path
CruisePassThroughWitness ==
    /\ Emitting
    /\ gl.stop_read = -1
    /\ gl.closest_idx >= 1
    /\ Len(gl.lane) >= 2

\* C4 as stated: the extracted window has exactly min(horizon, len(path))
\* waypoints, starting at ahead_idx and advancing circularly.
WindowBound ==
    (pc = "gl_check1" /\ gl.closest_idx < Len(gl.base)) =>
        /\ Len(gl.base_waypoints) = Min(lookahead_waypoints, Len(gl.base))
        /\ \A i \in 0..(Len(gl.base_waypoints) - 1) :
              gl.base_waypoints[i + 1] = gl.base[((gl.closest_idx + i) % Len(gl.base)) + 1]

\* C5 as stated: the tree, the coordinate lists and the waypoint list that one
\* tick uses were all built from the same delivery of /base_waypoints.
GenerationConsistency ==
    Cardinality({gc.tree_gen, gc.cur_gen, gc.prev_gen, gc.len_gen, gl.base_gen} \ {0}) <= 1

\* C6: not-ready skip.  A tick that finds the pose, the path or the tree
\* missing makes no localization query and publishes nothing; the main thread
\* is past the guard only when all three are present.
AllPresent == pose.seq # 0 /\ waypoints_base.gen # 0 /\ waypoints_tree.gen # 0
NotReadySkip ==
    /\ [](pc # "idle" => AllPresent)
    /\ [][(pc = "idle" /\ ~AllPresent) =>
             (pc' = "idle" /\ gc' = gc /\ gl' = gl /\ last_tick' # "published")]_vars

\* a tick was skipped, and the path has arrived while its tree has not
NotReadySkipWitness ==
    /\ last_tick = "skipped"
    /\ pc = "idle"
    /\ pose.seq # 0
    /\ waypoints_base.gen # 0
    /\ waypoints_tree.gen = 0

\* C7.  For a call of get_closest_waypoint_idx whose reads of waypoints_2d all
\* returned the list w the tree was built from: n = len(w), C the index the
\* tree returned, P the waypoint before C (circularly).
SignTestHolds ==
    LET w == gc.data
        n == Len(w)
        C == gc.closest_idx
        P == w[((C - 1) % n) + 1]
        d == (w[C + 1][1] - P[1]) * (gc.x - w[C + 1][1])
             + (w[C + 1][2] - P[2]) * (gc.y - w[C + 1][2])
    IN /\ \A k \in 1..n : SqDist2(w[C + 1], gc.x, gc.y) <= SqDist2(w[k], gc.x, gc.y)
       /\ gc.ret = (IF d > 0 THEN (C + 1) % n ELSE C)
       /\ gc.ret \in 0..(n - 1)

\* C7 as stated: the sign test, and the result is never C - 1.
LocalizerNeverBehind ==
    (gc.done /\ gc.same_list) =>
        /\ SignTestHolds
        /\ gc.ret # (gc.closest_idx - 1) % Len(gc.data)

\* C7 amended: the sign test; the result is C or its circular successor, which
\* differs from C - 1 on every path of three or more waypoints.
LocalizerSignTest ==
    (gc.done /\ gc.same_list) =>
        /\ SignTestHolds
        /\ (gc.ret - gc.closest_idx) % Len(gc.data) \in {0, 1}
        /\ (Len(gc.data) >= 3 => gc.ret # (gc.closest_idx - 1) % Len(gc.data))

\* the nearest waypoint is the first of a path of three or more, the waypoint
\* before it is the last one, and the index is advanced
LocalizerSignTestWitness ==
    /\ gc.done
    /\ gc.same_list
    /\ Len(gc.data) >= 3
    /\ gc.closest_idx = 0
    /\ gc.ret = 1

\* C8 as stated: every waypoint of an emitted window is an object of its own,
\* not an object of the reference path.
EmittedAreCopies ==
    Emitting => \A i \in Offsets : gl.lane[i + 1].obj[1] = 0

\* C9 as stated: whatever stop-line index was delivered, the tick ends without
\* an out-of-range access in distance.
NoIndexErrorInDistance == error # "distance"

\* C10 as stated: x and y of one call come from the same pose, and the index
\* computed in run and the one generate_lane uses come from the same pose.
PoseSnapshot ==
    /\ (gc.yseq # 0 => gc.xseq = gc.yseq)
    /\ (pc = "gl_slice" => (run_idx.xseq = gc.xseq /\ run_idx.yseq = gc.yseq))

====
